---- MODULE Spec2Model ----
(***************************************************************************)
(* M-Rating Bracket Tracker & What-If Simulator (app.py).                  *)
(*                                                                         *)
(* A DataFrame is a sequence of rows (records); a dict is a function; a    *)
(* dict whose iteration order matters (picks) is a sequence of             *)
(* [name, bracket] items.  A null (None / NaN) is the value None.          *)
(***************************************************************************)
EXTENDS Integers, Sequences, FiniteSets, TLC

VARIABLES
    bracket_df,       \* snapshot "bracket": [columns, rows]
    results_df,       \* snapshot "results": rows [matchup_id, winner_id, round]
    whatif_results,   \* st.session_state.whatif_results (the overlay)
    mode,             \* sidebar radio: "Live" | "Snapshot"
    sel_round,        \* selectbox "Round"
    match,            \* selectbox "Matchup"
    winner,           \* radio "Set winner"
    picks,            \* pick sets handed to score_brackets
    res,              \* result of current_results
    leaderboard,      \* result of score_brackets
    applied,          \* history: matchup_id -> last applied what-if
    reapplied,        \* history: some applied matchup was applied again with the other winner
    last              \* the operation that produced this state

vars == <<bracket_df, results_df, whatif_results, mode, sel_round, match,
          winner, picks, res, leaderboard, applied, reapplied, reapplied, last>>

None == "None"

\* ---------------------------------------------------------------- bounds
MaxRows == 2        \* rows of a bracket
MaxResults == 2     \* rows of a base result set
MaxOverlay == 2     \* rows of an overlay handed to the merge
MaxSources == 2     \* pick-set sources handed to the scorer

\* ---------------------------------------------------------------- config
ROUND_POINTS == (1 :> 1) @@ (2 :> 2) @@ (3 :> 4) @@ (4 :> 8) @@ (5 :> 16) @@ (6 :> 32)

pick_cols == <<"kenpom_winner", "torvik_winner", "espn_consensus_winner", "cbs_consensus_winner">>

\* ---------------------------------------------------------------- helpers
\* dict.get(k) with default None
get(d, k) == IF k \in DOMAIN d THEN d[k] ELSE None

\* d[k] = v
put(d, k, v) == [x \in (DOMAIN d) \cup {k} |-> IF x = k THEN v ELSE d[x]]

\* df["matchup_id"] as a set of values (isin / in .values)
matchup_ids(df) == {df[i].matchup_id : i \in 1..Len(df)}

\* {r["matchup_id"]: r[field] for _, r in df.iterrows()}: a later row wins
RECURSIVE dict_of(_, _, _, _)
dict_of(df, field, i, acc) ==
    IF i > Len(df) THEN acc
    ELSE dict_of(df, field, i + 1, put(acc, df[i].matchup_id, df[i][field]))

EmptyDict == [x \in {} |-> None]

\* col.replace("_winner", "")
source_name(col) ==
    CASE col = "kenpom_winner" -> "kenpom"
      [] col = "torvik_winner" -> "torvik"
      [] col = "espn_consensus_winner" -> "espn_consensus"
      [] col = "cbs_consensus_winner" -> "cbs_consensus"

\* row.get(col): None when the frame has no such column
row_get(df, row, col) == IF col \in df.columns THEN row[col] ELSE None

\* out.setdefault(name, {})[mid] = v   on an insertion-ordered dict
setdefault_put(out, name, mid, v) ==
    IF \E i \in 1..Len(out) : out[i].name = name
    THEN [i \in 1..Len(out) |->
            IF out[i].name = name
            THEN [out[i] EXCEPT !.bracket = put(out[i].bracket, mid, v)]
            ELSE out[i]]
    ELSE Append(out, [name |-> name, bracket |-> put(EmptyDict, mid, v)])

\* the inner loop over pick_cols for one row
RECURSIVE cols_loop(_, _, _, _)
cols_loop(df, row, c, out) ==
    IF c > Len(pick_cols) THEN out
    ELSE cols_loop(df, row, c + 1,
            IF pick_cols[c] \in df.columns
            THEN setdefault_put(out, source_name(pick_cols[c]), row.matchup_id,
                                row_get(df, row, pick_cols[c]))
            ELSE out)

\* the loop over bracket_df.iterrows()
RECURSIVE rows_loop(_, _, _)
rows_loop(df, i, out) ==
    IF i > Len(df.rows) THEN out
    ELSE LET row == df.rows[i]
             out1 == setdefault_put(out, "m_rating", row.matchup_id,
                                    row_get(df, row, "predicted_winner"))
         IN rows_loop(df, i + 1, cols_loop(df, row, 1, out1))

snapshot_picks_to_brackets(df) ==
    rows_loop(df, 1, <<[name |-> "m_rating", bracket |-> EmptyDict]>>)

\* ---------------------------------------------------------------- merge
\* variant: base rows are not filtered before the concat
current_results_unfiltered(base_df, overlay) == base_df \o overlay

\* variant: an empty overlay returns the overlay
current_results_overlay(base_df, overlay) ==
    IF Len(overlay) = 0 THEN overlay
    ELSE SelectSeq(base_df, LAMBDA r : r.matchup_id \notin matchup_ids(overlay)) \o overlay

current_results(base_df, overlay) ==
    LET base == base_df
        overrides == overlay
    IN IF Len(overrides) = 0 THEN base
       ELSE LET kept == IF Len(base) # 0
                        THEN SelectSeq(base, LAMBDA r : r.matchup_id \notin matchup_ids(overrides))
                        ELSE base
            IN kept \o overrides

\* ---------------------------------------------------------------- scorer
\* variant: ROUND_POINTS.get(rnd, 1)
round_points_get_one(rnd) == IF rnd \in DOMAIN ROUND_POINTS THEN ROUND_POINTS[rnd] ELSE 1

\* ROUND_POINTS.get(rnd, 0)
round_points_get(rnd) == IF rnd \in DOMAIN ROUND_POINTS THEN ROUND_POINTS[rnd] ELSE 0

\* variant: the pick is not compared with the result
is_correct_any(picked, actual) == actual # None

\* actual is not None and picked == actual
is_correct(picked, actual) == actual # None /\ picked = actual

\* for mid, picked in bracket.items(): ...   (todo: the items not yet visited)
RECURSIVE items_loop(_, _, _, _, _)
items_loop(bracket, todo, results, rounds, acc) ==
    IF todo = {} THEN acc
    ELSE LET mid == CHOOSE m \in todo : TRUE
             picked == bracket[mid]
             rnd == rounds[mid]           \* rounds.get(mid), read when present
             rest == todo \ {mid}
         IN IF mid \notin DOMAIN rounds   \* rnd is None
            THEN items_loop(bracket, rest, results, rounds, acc)
            ELSE LET pts == round_points_get(rnd)
                     actual == get(results, mid)
                 IN items_loop(bracket, rest, results, rounds,
                       [score |-> acc.score + (IF is_correct(picked, actual) THEN pts ELSE 0),
                        max_possible |-> acc.max_possible + pts])

\* variant: every known result is visited, not the bracket's own picks
score_row_all(item, results, rounds) ==
    LET seen == [mid \in DOMAIN rounds |-> get(item.bracket, mid)]
        tot == items_loop(seen, DOMAIN seen, results, rounds,
                          [score |-> 0, max_possible |-> 0])
    IN [bracket |-> item.name, score |-> tot.score, max_possible |-> tot.max_possible]

score_row(item, results, rounds) ==
    LET tot == items_loop(item.bracket, DOMAIN item.bracket, results, rounds,
                          [score |-> 0, max_possible |-> 0])
    IN [bracket |-> item.name, score |-> tot.score, max_possible |-> tot.max_possible]

\* variant: sort key ["score"] alone
sorts_before_score(a, b) == a.score > b.score

\* sort key ["score", "max_possible"], ascending=[False, False]: a sorts before b
sorts_before(a, b) ==
    \/ a.score > b.score
    \/ a.score = b.score /\ a.max_possible > b.max_possible

\* insert row a, which preceded every row of the sorted rows, keeping ties in order
RECURSIVE insert_row(_, _)
insert_row(a, rows) ==
    IF rows = <<>> THEN <<a>>
    ELSE IF sorts_before(Head(rows), a) THEN <<Head(rows)>> \o insert_row(a, Tail(rows))
    ELSE <<a>> \o rows

\* DataFrame.sort_values on several keys (a stable lexsort)
RECURSIVE sort_values(_)
sort_values(rows) ==
    IF rows = <<>> THEN <<>> ELSE insert_row(Head(rows), sort_values(Tail(rows)))

score_brackets(pick_sets, df) ==
    LET results == IF Len(df) # 0 THEN dict_of(df, "winner_id", 1, EmptyDict) ELSE EmptyDict
        rounds == IF Len(df) # 0 THEN dict_of(df, "round", 1, EmptyDict) ELSE EmptyDict
        rows == [i \in 1..Len(pick_sets) |-> score_row(pick_sets[i], results, rounds)]
    IN sort_values(rows)

\* ---------------------------------------------------------------- what-if UI
NoFrame == [columns |-> {}, rows |-> <<>>]

\* the data the script loads in the given mode
loaded_bracket(m) == IF m = "Snapshot" THEN bracket_df ELSE NoFrame
loaded_results(m) == IF m = "Snapshot" THEN results_df ELSE <<>>

\* sorted(bracket_df["round"].unique())
round_choices(df) == {df.rows[i].round : i \in 1..Len(df.rows)}

\* bracket_df[bracket_df["round"] == sel_round]
subset(df, r) == SelectSeq(df.rows, LAMBDA row : row.round = r)

\* variant: the first row of the round, whatever the matchup chosen
selected_row_first(df, r, m) == Head(subset(df, r))

\* subset[subset["matchup_id"] == match].iloc[0]
selected_row(df, r, m) == Head(SelectSeq(subset(df, r), LAMBDA row : row.matchup_id = m))

\* options of the "Matchup" selectbox and of the "Set winner" radio
matchup_options(df, r) == [i \in 1..Len(subset(df, r)) |-> subset(df, r)[i].matchup_id]
winner_options(row) == <<row.team1_id, row.team2_id>>

Min(S) == CHOOSE x \in S : \A y \in S : x <= y

\* whether the what-if widgets are drawn in mode m
has_widgets(m) == m = "Snapshot" /\ Len(bracket_df.rows) # 0

\* a widget met for the first time returns its first option
first_round == Min(round_choices(bracket_df))
first_match(r) == matchup_options(bracket_df, r)[1]
first_winner(r, m) == winner_options(selected_row(bracket_df, r, m))[1]

\* a widget whose options are those of the previous run keeps the user's value
kept_winner(r, m) ==
    IF has_widgets(mode) /\ sel_round # 0
       /\ winner_options(selected_row(bracket_df, sel_round, match))
            = winner_options(selected_row(bracket_df, r, m))
    THEN winner ELSE first_winner(r, m)

\* variant: always appends the new row
apply_whatif_append(overlay, m, w, rnd) ==
    overlay \o <<[matchup_id |-> m, winner_id |-> w, round |-> rnd]>>

\* variant: the new row replaces the whole overlay
apply_whatif_reset(overlay, m, w, rnd) ==
    <<[matchup_id |-> m, winner_id |-> w, round |-> rnd]>>

\* the "Apply What-If" button handler
apply_whatif(overlay, m, w, rnd) ==
    LET new_row == [matchup_id |-> m, winner_id |-> w, round |-> rnd]
    IN IF Len(overlay) # 0 /\ m \in matchup_ids(overlay)
       THEN [i \in 1..Len(overlay) |->
               IF overlay[i].matchup_id = m
               THEN [overlay[i] EXCEPT !.winner_id = w, !.round = rnd]
               ELSE overlay[i]]
       ELSE overlay \o <<new_row>>

\* the Bracket Showdown block, drawn after the what-if block in Snapshot mode
Showdown(m, overlay) ==
    IF m = "Snapshot"
    THEN /\ picks' = snapshot_picks_to_brackets(loaded_bracket(m))
         /\ res' = current_results(loaded_results(m), overlay)
         /\ leaderboard' = score_brackets(snapshot_picks_to_brackets(loaded_bracket(m)),
                                          current_results(loaded_results(m), overlay))
    ELSE /\ picks' = <<>>
         /\ res' = <<>>
         /\ leaderboard' = <<>>

\* ---------------------------------------------------------------- inputs
\* A snapshot identifies each matchup by a unique matchup_id, gives every result
\* a winner_id and an integer round, and is the same file throughout a session.
\* score_brackets is always handed at least the "m_rating" pick set.
Mids == {"m1", "m2", "m3"}
Teams == {"A", "B", "C"}

RECURSIVE frames(_, _)
\* the frames of at most n rows drawn from R, no matchup_id twice
frames(R, n) ==
    IF n = 0 THEN {<<>>}
    ELSE LET shorter == frames(R, n - 1)
         IN shorter \cup {Append(f, r) : <<f, r>> \in
                             {p \in shorter \X R : p[2].matchup_id \notin matchup_ids(p[1])}}

AllColumns == {"matchup_id", "round", "team1_id", "team2_id", "predicted_winner"}
                 \cup {pick_cols[c] : c \in 1..Len(pick_cols)}

SessionRows ==
    {[matchup_id |-> m, round |-> r, team1_id |-> t[1], team2_id |-> t[2],
      predicted_winner |-> t[1], kenpom_winner |-> t[2], torvik_winner |-> None,
      espn_consensus_winner |-> None, cbs_consensus_winner |-> None] :
        m \in Mids, r \in {1, 2}, t \in {<<"A", "B">>, <<"C", "A">>}}

\* the snapshot lists its matchups in id order
MidRank == ("m1" :> 1) @@ ("m2" :> 2) @@ ("m3" :> 3)

in_id_order(f) ==
    \A i, j \in 1..Len(f) : i < j => MidRank[f[i].matchup_id] < MidRank[f[j].matchup_id]

SessionBrackets ==
    {[columns |-> AllColumns \ {"torvik_winner", "espn_consensus_winner", "cbs_consensus_winner"},
      rows |-> f] : f \in {g \in frames(SessionRows, MaxRows) : in_id_order(g)}}

SessionResults ==
    {<<>>,
     <<[matchup_id |-> "m1", winner_id |-> "A", round |-> 1],
       [matchup_id |-> "m3", winner_id |-> "B", round |-> 2]>>}

\* ---------------------------------------------------------------- session
Init ==
    /\ bracket_df \in SessionBrackets
    /\ results_df \in SessionResults
    /\ whatif_results = <<>>
    /\ mode \in {"Live", "Snapshot"}
    /\ sel_round = IF has_widgets(mode) THEN first_round ELSE 0
    /\ match = IF has_widgets(mode) THEN first_match(first_round) ELSE None
    /\ winner = IF has_widgets(mode) THEN first_winner(first_round, first_match(first_round)) ELSE None
    /\ picks = IF mode = "Snapshot" THEN snapshot_picks_to_brackets(bracket_df) ELSE <<>>
    /\ res = IF mode = "Snapshot" THEN current_results(results_df, <<>>) ELSE <<>>
    /\ leaderboard = IF mode = "Snapshot"
                     THEN score_brackets(snapshot_picks_to_brackets(bracket_df),
                                         current_results(results_df, <<>>))
                     ELSE <<>>
    /\ applied = EmptyDict
    /\ reapplied = FALSE
    /\ last = "run"

\* the sidebar "Mode" radio is switched
SwitchMode ==
    /\ last = "run"
    /\ mode' = IF mode = "Live" THEN "Snapshot" ELSE "Live"
    /\ sel_round' = IF has_widgets(mode') THEN first_round ELSE 0
    /\ match' = IF has_widgets(mode') THEN first_match(first_round) ELSE None
    /\ winner' = IF has_widgets(mode')
                 THEN first_winner(first_round, first_match(first_round)) ELSE None
    /\ Showdown(mode', whatif_results)
    /\ UNCHANGED <<bracket_df, results_df, whatif_results, applied, reapplied, last>>

\* another round is chosen in the "Round" selectbox
ChangeRound(r) ==
    /\ last = "run"
    /\ has_widgets(mode)
    /\ r \in round_choices(bracket_df)
    /\ r # sel_round
    /\ sel_round' = r
    /\ match' = first_match(r)
    /\ winner' = kept_winner(r, first_match(r))
    /\ Showdown(mode, whatif_results)
    /\ UNCHANGED <<bracket_df, results_df, whatif_results, mode, applied, reapplied, last>>

\* another matchup is chosen in the "Matchup" selectbox
ChangeMatchup(m) ==
    /\ last = "run"
    /\ has_widgets(mode)
    /\ \E i \in 1..Len(matchup_options(bracket_df, sel_round)) :
           matchup_options(bracket_df, sel_round)[i] = m
    /\ m # match
    /\ match' = m
    /\ winner' = kept_winner(sel_round, m)
    /\ Showdown(mode, whatif_results)
    /\ UNCHANGED <<bracket_df, results_df, whatif_results, mode, sel_round, applied, reapplied, last>>

\* the other team is chosen in the "Set winner" radio
ChangeWinner(w) ==
    /\ last = "run"
    /\ has_widgets(mode)
    /\ \E i \in 1..2 : winner_options(selected_row(bracket_df, sel_round, match))[i] = w
    /\ w # winner
    /\ winner' = w
    /\ Showdown(mode, whatif_results)
    /\ UNCHANGED <<bracket_df, results_df, whatif_results, mode, sel_round, match, applied, reapplied, last>>

\* the "Apply What-If" button is pressed
ApplyWhatIf ==
    /\ last = "run"
    /\ has_widgets(mode)
    /\ LET row == selected_row(bracket_df, sel_round, match)
       IN /\ whatif_results' = apply_whatif(whatif_results, match, winner, row.round)
          /\ applied' = put(applied, match,
                            [winner_id |-> winner, round |-> row.round])
          /\ reapplied' = (reapplied \/ (match \in DOMAIN applied
                                         /\ applied[match].winner_id # winner))
    /\ Showdown(mode, whatif_results')
    /\ UNCHANGED <<bracket_df, results_df, mode, sel_round, match, winner, last>>

Next ==
    \/ SwitchMode
    \/ \E r \in {1, 2} : ChangeRound(r)
    \/ \E m \in Mids : ChangeMatchup(m)
    \/ \E w \in Teams : ChangeWinner(w)
    \/ ApplyWhatIf

Spec == Init /\ [][Next]_vars

\* ---------------------------------------------------------------- session claims
\* C1: after any sequence of Apply What-If actions from the empty overlay, the
\* overlay holds exactly one record for each matchup_id ever applied and none for
\* any other id, carrying the winner_id and round of the latest application.
C1_OneRecordPerApplied ==
    /\ matchup_ids(whatif_results) = DOMAIN applied
    /\ \A mid \in DOMAIN applied :
          /\ Cardinality({i \in 1..Len(whatif_results) :
                             whatif_results[i].matchup_id = mid}) = 1
          /\ \A i \in 1..Len(whatif_results) :
                whatif_results[i].matchup_id = mid =>
                    /\ whatif_results[i].winner_id = applied[mid].winner_id
                    /\ whatif_results[i].round = applied[mid].round

\* a matchup applied again with the other winner, next to another override
C1_Witness ==
    /\ Len(whatif_results) >= 2
    /\ reapplied

\* C9: the overlay is empty at session start, only Apply What-If changes it,
\* and no step removes a matchup_id from it.
C9_OnlyApplyChangesOverlay ==
    /\ whatif_results = <<>>
    /\ [][/\ (~ApplyWhatIf) => whatif_results' = whatif_results
          /\ matchup_ids(whatif_results) \subseteq matchup_ids(whatif_results')]_vars

\* overrides kept through a switch to Live mode
C9_Witness == mode = "Live" /\ Len(whatif_results) >= 2

\* whether every overlay record is a matchup of the bracket df: a row of df has
\* its matchup_id and round, and its winner_id is one of the row's participants
within_bracket(df) ==
    \A i \in 1..Len(whatif_results) :
        \E k \in 1..Len(df.rows) :
            /\ df.rows[k].matchup_id = whatif_results[i].matchup_id
            /\ df.rows[k].round = whatif_results[i].round
            /\ whatif_results[i].winner_id \in {df.rows[k].team1_id, df.rows[k].team2_id}

\* C10 as stated: in every reachable session state each overlay record is a
\* matchup of the bracket the script has loaded (its matchup_id, its round, one
\* of its two participants as winner_id).
C10_OverlayWithinLoadedBracket == within_bracket(loaded_bracket(mode))

\* C10 amended: in every reachable session state each overlay record is a
\* matchup of the snapshot's bracket, the one the what-if widgets are built
\* from; a Live-mode run loads an empty bracket and keeps the overlay.
C10_OverlayWithinSnapshotBracket == within_bracket(bracket_df)

\* two overrides, one of them for the second participant of a later row
C10_Witness ==
    /\ Len(whatif_results) >= 2
    /\ \E i \in 1..Len(whatif_results) :
          /\ whatif_results[i].matchup_id = bracket_df.rows[2].matchup_id
          /\ whatif_results[i].winner_id = bracket_df.rows[2].team2_id

\* ---------------------------------------------------------------- the functions alone
Idle ==
    /\ mode = "Snapshot"
    /\ sel_round = 0
    /\ match = None
    /\ winner = None
    /\ applied = EmptyDict
    /\ reapplied = FALSE
    /\ last = "input"

\* ---- current_results on every base and overlay
MergeRows == [matchup_id : Mids, winner_id : {"A", "B"}, round : {1, 2}]

InitMerge ==
    /\ results_df \in frames(MergeRows, MaxResults)
    /\ whatif_results \in frames(MergeRows, MaxOverlay)
    /\ bracket_df = NoFrame
    /\ picks = <<>>
    /\ res = <<>>
    /\ leaderboard = <<>>
    /\ Idle

Merge ==
    /\ last = "input"
    /\ res' = current_results(results_df, whatif_results)
    /\ last' = "merge"
    /\ UNCHANGED <<bracket_df, results_df, whatif_results, mode, sel_round, match,
                   winner, picks, leaderboard, applied, reapplied>>

NextMerge == Merge

SpecMerge == InitMerge /\ [][NextMerge]_vars

\* ---- score_brackets on every pick set and effective result set
SourceNames == <<"m_rating", "kenpom", "torvik", "espn_consensus", "cbs_consensus">>

\* the dicts matchup_id -> picked winner: m1 and m2 picked A or B or left out,
\* m3 picked A or left out
ScoreBrackets ==
    {a @@ b @@ c : a \in UNION {[D -> {"A", "B"}] : D \in SUBSET {"m1"}},
                   b \in UNION {[D -> {"A", "B"}] : D \in SUBSET {"m2"}},
                   c \in UNION {[D -> {"A"}] : D \in SUBSET {"m3"}}}

RECURSIVE pick_sets_of(_)
\* the pick sets of 1..n sources
pick_sets_of(n) ==
    IF n = 0 THEN {<<>>}
    ELSE LET shorter == pick_sets_of(n - 1)
         IN shorter \cup {Append(q[1], [name |-> SourceNames[Len(q[1]) + 1], bracket |-> q[2]]) :
                             q \in {q \in shorter \X ScoreBrackets : Len(q[1]) = n - 1}}

optional_row(mid, values) ==
    {<<>>} \cup {<<[matchup_id |-> mid, winner_id |-> v[1], round |-> v[2]]>> : v \in values}

ScoreBase ==
    {a \o b : a \in optional_row("m1", {<<"A", 1>>, <<"B", 7>>}),
              b \in optional_row("m2", {<<"A", 1>>, <<"B", 7>>})}

ScoreOverlay ==
    optional_row("m2", {"A", "B"} \X {2, 7}) \cup optional_row("m3", {"A", "B"} \X {2, 7})

InitScore ==
    /\ picks \in pick_sets_of(MaxSources) \ {<<>>}
    /\ results_df \in ScoreBase
    /\ whatif_results \in ScoreOverlay
    /\ bracket_df = NoFrame
    /\ res = <<>>
    /\ leaderboard = <<>>
    /\ Idle

\* res = current_results(results_df); leaderboard = score_brackets(picks, res)
Score ==
    /\ last = "input"
    /\ res' = current_results(results_df, whatif_results)
    /\ leaderboard' = score_brackets(picks, current_results(results_df, whatif_results))
    /\ last' = "score"
    /\ UNCHANGED <<bracket_df, results_df, whatif_results, mode, sel_round, match,
                   winner, picks, applied, reapplied>>

NextScore == Score

SpecScore == InitScore /\ [][NextScore]_vars

\* ---- snapshot_picks_to_brackets on every bracket, then the scorer on its output
KeyColumns == {"matchup_id", "round", "team1_id", "team2_id"}

ExtractColumns ==
    {KeyColumns \cup {"predicted_winner"},
     KeyColumns \cup {"predicted_winner", "kenpom_winner"},
     KeyColumns \cup {"kenpom_winner", "espn_consensus_winner"}}

\* the values a row may hold in column c of a frame with the columns cols
cell(cols, c, values) == IF c \in cols THEN values ELSE {None}

ExtractRows(cols) ==
    [matchup_id : Mids, round : {1, 2}, team1_id : {"A"}, team2_id : {"B"},
     predicted_winner : cell(cols, "predicted_winner", {"A", "B", None}),
     kenpom_winner : cell(cols, "kenpom_winner", {"A", None}),
     torvik_winner : cell(cols, "torvik_winner", {"B", None}),
     espn_consensus_winner : cell(cols, "espn_consensus_winner", {"B", None}),
     cbs_consensus_winner : cell(cols, "cbs_consensus_winner", {"A", None})]

ExtractBrackets ==
    UNION {{[columns |-> cols, rows |-> f] : f \in frames(ExtractRows(cols), MaxRows)} :
              cols \in ExtractColumns}

InitExtract ==
    /\ bracket_df \in ExtractBrackets
    /\ results_df \in SessionResults
    /\ whatif_results = <<>>
    /\ picks = <<>>
    /\ res = <<>>
    /\ leaderboard = <<>>
    /\ Idle

Extract ==
    /\ last = "input"
    /\ picks' = snapshot_picks_to_brackets(bracket_df)
    /\ last' = "extract"
    /\ UNCHANGED <<bracket_df, results_df, whatif_results, mode, sel_round, match,
                   winner, res, leaderboard, applied, reapplied>>

ScoreExtracted ==
    /\ last = "extract"
    /\ res' = current_results(results_df, whatif_results)
    /\ leaderboard' = score_brackets(picks, current_results(results_df, whatif_results))
    /\ last' = "score"
    /\ UNCHANGED <<bracket_df, results_df, whatif_results, mode, sel_round, match,
                   winner, picks, applied, reapplied>>

NextExtract == Extract \/ ScoreExtracted

SpecExtract == InitExtract /\ [][NextExtract]_vars

\* ---------------------------------------------------------------- function claims
\* the rows of df for matchup mid
rows_for(df, mid) == {i \in 1..Len(df) : df[i].matchup_id = mid}

\* C2: for a base keyed by matchup_id and any overlay, the effective set holds
\* exactly one record per matchup_id of either: the overlay's record (winner_id
\* and round) when the overlay has the id, otherwise the base record unchanged;
\* overlay-only ids are added and no other record appears.
C2_OverlayShadowsBase ==
    last = "merge" =>
        /\ matchup_ids(res) = matchup_ids(results_df) \cup matchup_ids(whatif_results)
        /\ \A mid \in matchup_ids(res) :
              /\ Cardinality(rows_for(res, mid)) = 1
              /\ \A i \in rows_for(res, mid) :
                    IF mid \in matchup_ids(whatif_results)
                    THEN \E k \in rows_for(whatif_results, mid) : res[i] = whatif_results[k]
                    ELSE \E k \in rows_for(results_df, mid) : res[i] = results_df[k]

\* an override of a base record with another winner and round, next to a base-only
\* record and an overlay-only record
C2_Witness ==
    /\ last = "merge"
    /\ \E mid \in matchup_ids(results_df) \cap matchup_ids(whatif_results) :
          \E i \in rows_for(results_df, mid), k \in rows_for(whatif_results, mid) :
              /\ results_df[i].winner_id # whatif_results[k].winner_id
              /\ results_df[i].round # whatif_results[k].round
    /\ matchup_ids(results_df) \ matchup_ids(whatif_results) # {}
    /\ matchup_ids(whatif_results) \ matchup_ids(results_df) # {}

\* C3: merging a base with the empty overlay returns the base unchanged, and a
\* merge changes neither the base results nor the overlay.
C3_EmptyOverlayIdentity ==
    [][last' = "merge" =>
          /\ results_df' = results_df
          /\ whatif_results' = whatif_results
          /\ (whatif_results = <<>> => res' = results_df)]_vars

\* a merge of a two-row base with the empty overlay
C3_Witness ==
    /\ last = "merge"
    /\ whatif_results = <<>>
    /\ Len(results_df) = 2
    /\ res = results_df

\* the effective record of matchup mid (the effective set has one at most)
effective(df, mid) == df[CHOOSE i \in 1..Len(df) : df[i].matchup_id = mid]

\* the picks of bracket b on a matchup with an effective record of round r
picks_in_round(b, df, r) ==
    {mid \in DOMAIN b : mid \in matchup_ids(df) /\ effective(df, mid).round = r}

\* those of them that name the effective winner
hits_in_round(b, df, r) ==
    {mid \in picks_in_round(b, df, r) : b[mid] = effective(df, mid).winner_id}

RECURSIVE points_total(_, _, _)
\* sum of ROUND_POINTS[r] * count[r] over the rounds R
points_total(R, count, acc) ==
    IF R = {} THEN acc
    ELSE LET r == CHOOSE x \in R : TRUE
         IN points_total(R \ {r}, count, acc + ROUND_POINTS[r] * count[r])

expected_max(b, df) ==
    points_total(DOMAIN ROUND_POINTS,
                 [r \in DOMAIN ROUND_POINTS |-> Cardinality(picks_in_round(b, df, r))], 0)

expected_score(b, df) ==
    points_total(DOMAIN ROUND_POINTS,
                 [r \in DOMAIN ROUND_POINTS |-> Cardinality(hits_in_round(b, df, r))], 0)

\* C4: for every source, max_possible is the sum of ROUND_POINTS[round] over its
\* picks that have an effective record, correct or not, and score is that sum
\* over the picks equal to the effective winner_id.
C4_ScoreAndMaxPossible ==
    last = "score" =>
        \A i \in 1..Len(picks) :
            \E k \in 1..Len(leaderboard) :
                /\ leaderboard[k].bracket = picks[i].name
                /\ leaderboard[k].max_possible = expected_max(picks[i].bracket, res)
                /\ leaderboard[k].score = expected_score(picks[i].bracket, res)

\* results {m1:(A,1), m2:(B,2)}, picks {m1:A, m2:A}: score 1, max_possible 3
C4_Witness ==
    /\ last = "score"
    /\ res = <<[matchup_id |-> "m1", winner_id |-> "A", round |-> 1],
               [matchup_id |-> "m2", winner_id |-> "B", round |-> 2]>>
    /\ \E i \in 1..Len(picks) :
          /\ picks[i].bracket = ("m1" :> "A") @@ ("m2" :> "A")
          /\ \E k \in 1..Len(leaderboard) :
                leaderboard[k] = [bracket |-> picks[i].name, score |-> 1, max_possible |-> 3]

\* the picks of b that can earn points: an effective record and a round with points
scorable(b, df) ==
    {mid \in DOMAIN b : mid \in matchup_ids(df)
                        /\ effective(df, mid).round \in DOMAIN ROUND_POINTS}

without_unscorable(pick_sets, df) ==
    [i \in 1..Len(pick_sets) |->
        [name |-> pick_sets[i].name,
         bracket |-> [mid \in scorable(pick_sets[i].bracket, df) |-> pick_sets[i].bracket[mid]]]]

\* C6: a pick without an effective record, or whose round has no ROUND_POINTS
\* entry, adds 0 to score and max_possible; the leaderboard is the one the
\* remaining picks give.
C6_UnscorablePicksAddNothing ==
    last = "score" => leaderboard = score_brackets(without_unscorable(picks, res), res)

\* a source picks a matchup without a record, a matchup of round 7 and, rightly,
\* a matchup of round 2: its row holds the 2 points of the last pick alone
C6_Witness ==
    /\ last = "score"
    /\ \E i \in 1..Len(picks) :
          /\ \E mid \in DOMAIN picks[i].bracket : mid \notin matchup_ids(res)
          /\ \E mid \in DOMAIN picks[i].bracket :
                mid \in matchup_ids(res) /\ effective(res, mid).round = 7
          /\ \E mid \in DOMAIN picks[i].bracket :
                /\ mid \in matchup_ids(res)
                /\ effective(res, mid).round = 2
                /\ effective(res, mid).winner_id = picks[i].bracket[mid]
          /\ \E k \in 1..Len(leaderboard) :
                leaderboard[k] = [bracket |-> picks[i].name, score |-> 2, max_possible |-> 2]

\* C7: the leaderboard has exactly one row per source, in descending score
\* order, equal scores in descending max_possible order.
C7_LeaderboardOrder ==
    last = "score" =>
        /\ Len(leaderboard) = Len(picks)
        /\ \A i \in 1..Len(picks) :
              Cardinality({k \in 1..Len(leaderboard) :
                              leaderboard[k].bracket = picks[i].name}) = 1
        /\ \A j, k \in 1..Len(leaderboard) :
              j < k =>
                  \/ leaderboard[j].score > leaderboard[k].score
                  \/ /\ leaderboard[j].score = leaderboard[k].score
                     /\ leaderboard[j].max_possible >= leaderboard[k].max_possible

\* equal scores, and the source with the higher max_possible moved to the front
C7_Witness ==
    /\ last = "score"
    /\ Len(leaderboard) = 2
    /\ leaderboard[1].score = leaderboard[2].score
    /\ leaderboard[1].max_possible > leaderboard[2].max_possible
    /\ leaderboard[1].bracket = picks[2].name

\* the matchup_ids some source picks
picked_ids(pick_sets) == UNION {DOMAIN pick_sets[i].bracket : i \in 1..Len(pick_sets)}

\* C8: an override for a matchup_id no source picks is inert: the leaderboard
\* with it in the overlay is the leaderboard without it.
C8_UnpickedOverrideInert ==
    last = "score" =>
        leaderboard =
            score_brackets(picks,
                current_results(results_df,
                    SelectSeq(whatif_results,
                              LAMBDA o : o.matchup_id \in picked_ids(picks))))

\* an override of a base record of a matchup nobody picks, sources with points
C8_Witness ==
    /\ last = "score"
    /\ \E k \in 1..Len(whatif_results) :
          /\ whatif_results[k].matchup_id \notin picked_ids(picks)
          /\ whatif_results[k].matchup_id \in matchup_ids(results_df)
    /\ \E k \in 1..Len(leaderboard) : leaderboard[k].max_possible > 0

\* C5: the extractor stores a matchup_id for a source only when the source's
\* pick for it is not null; no inner mapping holds a null.
C5_NoNullPickStored ==
    last = "extract" =>
        \A i \in 1..Len(picks) :
            \A mid \in DOMAIN picks[i].bracket : picks[i].bracket[mid] # None

====
